---- MODULE Spec2Model ----
(***************************************************************************)
(* web-tester: a headless browser session is driven to a target URL, the  *)
(* request / response / load-finished events of the page load are         *)
(* captured by detached goroutines, response bodies are fetched by a      *)
(* background watch loop, and the captured events are written to a        *)
(* postgres table by the final drain of main.                             *)
(*                                                                         *)
(* Strings are modelled as sequences of one-character strings, byte        *)
(* slices as sequences, the Go heap of map objects as a sequence of        *)
(* functions (a map reference is an index, 0 is the nil map).             *)
(***************************************************************************)
EXTENDS Integers, Sequences, FiniteSets, TLC

\* ------------------------------------------------------------------ bounds
\* number of browser events delivered to the listener in one run
MaxEvents == 2
\* the same, for the runs of WideSpec
MaxWideEvents == 3
\* length of the URLs enumerated for the Persistence Sink on its own
MaxUrlLen == 4
\* number of post-data entries of the requests enumerated for SetBody on its own
MaxEntries == 2

\* ------------------------------------------------------- strings (Go strings)
\* the characters URLs are built from: a letter, a digit, and the two
\* delimiters url.Parse looks at first.  ("?", "#", "%", "@" and control
\* characters are in no URL of the model, so the query, fragment, escape and
\* userinfo branches of url.Parse never apply; the IP-literal branch applies
\* to Ip6Url only.)
UrlChars == {"a", "8", ":", "/"}
Letters == {"a"}
Digits == {"8"}

\* all strings over S of length at most n
RECURSIVE StringsUpTo(_, _)
StringsUpTo(S, n) ==
    IF n = 0 THEN {<<>>}
    ELSE LET shorter == StringsUpTo(S, n - 1)
         IN  shorter \cup {Append(s, c) : s \in {t \in shorter : Len(t) = n - 1}, c \in S}

\* strings.Index for a one-character separator: first position of c in s, 0 if none
Index(s, c) ==
    IF \E i \in 1..Len(s) : s[i] = c
    THEN CHOOSE i \in 1..Len(s) : s[i] = c /\ \A j \in 1..(i - 1) : s[j] # c
    ELSE 0

\* strings.LastIndex for a one-character separator
LastIndex(s, c) ==
    IF \E i \in 1..Len(s) : s[i] = c
    THEN CHOOSE i \in 1..Len(s) : s[i] = c /\ \A j \in (i + 1)..Len(s) : s[j] # c
    ELSE 0

\* strings.HasPrefix
HasPrefix(s, p) == Len(s) >= Len(p) /\ SubSeq(s, 1, Len(p)) = p

\* s[i:] of Go, with i a 1-based position
From(s, i) == SubSeq(s, i, Len(s))

\* the part of s before the first c (all of s if there is none): the first
\* result of strings.Cut(s, c), and strings.Split(s, c)[0]
Before(s, c) == IF Index(s, c) = 0 THEN s ELSE SubSeq(s, 1, Index(s, c) - 1)

\* ---------------------------------------------- net/url as InsertIntoDB uses it
\* validOptionalPort: "" or ":" followed by digits only
validOptionalPort(port) ==
    \/ port = <<>>
    \/ /\ port[1] = ":"
       /\ \A i \in 2..Len(port) : port[i] \in Digits

\* getScheme: the leading "scheme:" of rawURL.  A letter goes on, a digit goes
\* on unless it is the first character, ":" ends the scheme (an error when it
\* is the first character), anything else means there is no scheme.
getScheme(rawURL) ==
    LET stops == {i \in 1..Len(rawURL) : rawURL[i] \notin (Letters \cup Digits)}
        stop  == IF stops = {} THEN 0
                 ELSE CHOOSE i \in stops : \A j \in stops : i <= j
    IN  IF rawURL # <<>> /\ rawURL[1] \in Digits
          THEN [scheme |-> <<>>, path |-> rawURL, err |-> ""]
        ELSE IF stop = 0 \/ rawURL[stop] # ":"
          THEN [scheme |-> <<>>, path |-> rawURL, err |-> ""]
        ELSE IF stop = 1
          THEN [scheme |-> <<>>, path |-> <<>>, err |-> "missing protocol scheme"]
        ELSE [scheme |-> SubSeq(rawURL, 1, stop - 1), path |-> From(rawURL, stop + 1),
              err |-> ""]

\* parseHost: an IP literal needs its "]" and a valid port after it; any other
\* host has a valid port after its last ":"
parseHost(host) ==
    IF HasPrefix(host, <<"[">>)
      THEN IF LastIndex(host, "]") = 0
             THEN [host |-> <<>>, err |-> "missing ']' in host"]
           ELSE IF ~validOptionalPort(From(host, LastIndex(host, "]") + 1))
             THEN [host |-> <<>>, err |-> "invalid port after host"]
           ELSE [host |-> host, err |-> ""]
    ELSE IF LastIndex(host, ":") # 0 /\ ~validOptionalPort(From(host, LastIndex(host, ":")))
      THEN [host |-> <<>>, err |-> "invalid port after host"]
    ELSE [host |-> host, err |-> ""]

\* url.Parse(rawURL), reduced to what InsertIntoDB reads: the error and Host
Parse(rawURL) ==
    LET u    == Before(rawURL, "#")
        gs   == getScheme(u)
        rest == Before(gs.path, "?")
        auth == Before(From(rest, 3), "/")
        ph   == parseHost(auth)
    IN  IF gs.err # "" THEN [Host |-> <<>>, err |-> gs.err]
        ELSE IF ~HasPrefix(rest, <<"/">>) /\ gs.scheme # <<>>
          THEN [Host |-> <<>>, err |-> ""]                       \* opaque
        ELSE IF ~HasPrefix(rest, <<"/">>) /\ Index(Before(rest, "/"), ":") # 0
          THEN [Host |-> <<>>, err |-> "first path segment in URL cannot contain colon"]
        ELSE IF (gs.scheme # <<>> \/ ~HasPrefix(rest, <<"/", "/", "/">>))
                /\ HasPrefix(rest, <<"/", "/">>)
          THEN [Host |-> ph.host, err |-> ph.err]
        ELSE [Host |-> <<>>, err |-> ""]

\* ------------------------------------------------------------ Persistence Sink
\* the row INSERT INTO events (type, domain, payload, body) writes for an event
Row(event) ==
    [type    |-> event.Type,
     domain  |-> Before(Parse(event.URL).Host, ":"),
     payload |-> <<"json", event.Content>>,
     body    |-> event.Body]

\* InsertIntoDB without the early return on the url.Parse error
InsertOutcomesNoParseCheck(dbh, event) ==
    IF dbh = "nil" THEN {"nil_deref"} ELSE {"ok", "exec_error"}

\* the ways one call InsertIntoDB(db, event) can end:
\*   "parse_error" returned before db.Exec; "nil_deref" db.Exec on a nil *sql.DB;
\*   "ok" the row is written; "exec_error" db.Exec ran and failed
InsertOutcomes(dbh, event) ==
    IF Parse(event.URL).err # "" THEN {"parse_error"}
    ELSE IF dbh = "nil" THEN {"nil_deref"}
    ELSE {"ok", "exec_error"}

\* ------------------------------------------------------------------- events
\* network.RequestID is a string: the identifier the browser hands out in a
\* run (the store is keyed by it and every operation is per identifier), and
\* NoID, the zero value
RequestIDs == {"r1"}
NoID == ""
AllIDs == RequestIDs \cup {NoID}

\* URLs carried by the events of a run: one url.Parse accepts, one it rejects
GoodUrl == <<"a", ":", "/", "/", "a", ":", "8", "/">>
BadUrl == <<":", "/", "/", "a">>

\* a URL whose host is an IPv6 literal with a port, like http://[::1]:8080/
Ip6Url == <<"a", ":", "/", "/", "[", ":", ":", "8", "]", ":", "8", "/">>

\* post-data entries of a request-initiation event (Request.PostDataEntries)
PostData == << <<"a", "b">>, <<"c", "d">> >>

\* the events the browser session can deliver to the listener: a request with
\* post data or one with a URL url.Parse rejects, a response, a load-finished
\* event
Events ==
    [kind : {"request"}, id : RequestIDs, url : {GoodUrl}, post : {PostData}]
    \cup [kind : {"request"}, id : RequestIDs, url : {BadUrl}, post : {<<>>}]
    \cup [kind : {"response"}, id : RequestIDs, url : {GoodUrl}, post : {<<>>}]
    \cup [kind : {"finished"}, id : RequestIDs, url : {<<>>}, post : {<<>>}]

\* the bytes network.GetResponseBody returns for a request identifier
BrowserBody(id) == <<"body", id>>

\* a browser session that has a body for every identifier, the empty one too
BodyAvailableForAnyID(id) == id \in AllIDs

\* the browser session has a body only for identifiers it handed out
BodyAvailable(id) == id \in RequestIDs

\* the nil Content: no event
NilContent == [seq |-> 0, post |-> <<>>]

\* the zero value of Response: what a lookup of a missing key (or in the nil
\* map) yields
ZeroResponse ==
    [RequestID |-> NoID, Type |-> "", URL |-> <<>>, Content |-> NilContent, Body |-> <<>>]

\* marks a key a map object does not hold
Absent ==
    [RequestID |-> NoID, Type |-> "absent", URL |-> <<>>, Content |-> NilContent, Body |-> <<>>]

\* make(map[network.RequestID]Response)
EmptyMap == [k \in AllIDs |-> Absent]

\* m[k] of Go: the zero value when the key is missing
MapGet(m, k) == IF m[k] = Absent THEN ZeroResponse ELSE m[k]

\* m[k] = v of Go
MapPut(m, k, v) == [m EXCEPT ![k] = v]

\* the keys of a map object
Keys(m) == {k \in AllIDs : m[k] # Absent}

\* ------------------------------------------------------------------- state
VARIABLES
    proc,         \* "running", "exited" (main returned), "panic", "fatal"
    session,      \* the chromedp context: "Idle", "Active", "Cancelled"
    db,           \* "none" before database.Init, then "ok" or "nil"
    mainpc,       \* position of main
    runErr,       \* what Run returned: "none" (not yet), "nil", "cancelled", "neterr"
    sleepAction,  \* the action chromedp.Sleep(waitTime) builds: "none", "built", "ran"
    navigations,  \* number of chromedp.Navigate actions run
    runReturnedAt, \* how many events had been delivered when Run returned nil
    delivered,    \* the events the listener callback was called with, in order
    task,         \* the goroutine spawned for each delivered event
    requests,     \* the Requests slice of main
    heap,         \* the map objects made so far
    ResponseMap,  \* responses.ResponseMap: a reference into heap, 0 = nil
    mu,           \* responses.mu: "free" or the holder
    watchpc,      \* position of the goroutine of WatchEventFinishers
    watchEvent,   \* its loop variable event.RequestID
    watchResp,    \* its local resp, the *r of GetResponseBody
    watchMap,     \* the map object it is reading or writing
    fetches,      \* the body retrievals issued:
                  \*   <<notification's id, id asked for, ok, state of the context>>
    drainReqs,    \* the slice value `range requests` evaluated
    drainIdx,     \* next index of that loop
    drainMap,     \* the map reference `range responses.ResponseMap` evaluated
    drainStart,   \* the keys it held then
    drainSeen,    \* the keys the loop has produced
    cur,          \* the loop variable r of the response loop
    inserts,      \* the calls of InsertIntoDB: [event, result]
    rows          \* the rows of the events table

vars == <<proc, session, db, mainpc, runErr, sleepAction, navigations, runReturnedAt,
          delivered, task,
          requests, heap, ResponseMap, mu, watchpc, watchEvent, watchResp, watchMap,
          fetches, drainReqs, drainIdx, drainMap, drainStart, drainSeen, cur,
          inserts, rows>>

mainVars  == <<db, mainpc, runErr, sleepAction, navigations, runReturnedAt>>
storeVars == <<requests, heap, ResponseMap>>
watchVars == <<watchpc, watchEvent, watchResp, watchMap, mu, fetches>>
drainVars == <<drainReqs, drainIdx, drainMap, drainStart, drainSeen, cur, inserts, rows>>
eventVars == <<delivered, task>>

\* a goroutine that is not inside Requests.Add or Responses.Add
IdleTask(pc) == [pc |-> pc, old |-> <<>>, m |-> 0]

Init ==
    /\ proc = "running"
    /\ session = "Idle"
    /\ db = "none"
    /\ mainpc = "New"
    /\ runErr = "none"
    /\ sleepAction = "none"
    /\ navigations = 0
    /\ runReturnedAt = 0
    /\ delivered = <<>>
    /\ task = <<>>
    /\ requests = <<>>
    /\ heap = <<>>
    /\ ResponseMap = 0
    /\ mu = "free"
    /\ watchpc = "off"
    /\ watchEvent = NoID
    /\ watchResp = ZeroResponse
    /\ watchMap = 0
    /\ fetches = <<>>
    /\ drainReqs = <<>>
    /\ drainIdx = 0
    /\ drainMap = 0
    /\ drainStart = {}
    /\ drainSeen = {}
    /\ cur = ZeroResponse
    /\ inserts = <<>>
    /\ rows = <<>>

\* ------------------------------------------------------------ Session Driver
Running == proc = "running"

\* the deferred client.Cancel() of main, run when main returns or panics
DeferredCancel == session' = "Cancelled"

\* browser.New: the chromedp context with its 60 s timeout
MainNew ==
    /\ Running /\ mainpc = "New"
    /\ session' = "Active"
    /\ mainpc' = "InitDB"
    /\ UNCHANGED <<proc, db, runErr, sleepAction, navigations, runReturnedAt,
                   eventVars, storeVars,
                   watchVars, drainVars>>

\* the 60 s timeout of the context expires
Timeout ==
    /\ Running /\ session = "Active"
    /\ session' = "Cancelled"
    /\ UNCHANGED <<proc, mainVars, eventVars, storeVars, watchVars, drainVars>>

\* database.Init: db is nil when it fails; the failure is only logged
MainInitDB ==
    /\ Running /\ mainpc = "InitDB"
    /\ db' \in {"ok", "nil"}
    /\ mainpc' = "Listen"
    /\ UNCHANGED <<proc, session, runErr, sleepAction, navigations, runReturnedAt,
                   eventVars, storeVars,
                   watchVars, drainVars>>

\* NewFinisherChannel, the empty Responses and Requests, ListenToEvents
MainListen ==
    /\ Running /\ mainpc = "Listen"
    /\ mainpc' = "Run"
    /\ UNCHANGED <<proc, session, db, runErr, sleepAction, navigations, runReturnedAt,
                   eventVars,
                   storeVars, watchVars, drainVars>>

\* Run: chromedp.Run(b.ctx, chromedp.Navigate(b.target)) starts; on a cancelled
\* context it fails at once
RunNavigate ==
    /\ Running /\ mainpc = "Run"
    /\ IF session = "Active"
         THEN /\ navigations' = navigations + 1
              /\ mainpc' = "Navigating"
              /\ runErr' = runErr
         ELSE /\ navigations' = navigations
              /\ mainpc' = "RunFailed"
              /\ runErr' = "cancelled"
    /\ UNCHANGED <<proc, session, db, sleepAction, runReturnedAt, eventVars, storeVars,
                   watchVars, drainVars>>

\* the navigation completes
NavOK ==
    /\ Running /\ mainpc = "Navigating" /\ session = "Active"
    /\ mainpc' = "Sleep"
    /\ UNCHANGED <<proc, session, db, runErr, sleepAction, navigations, runReturnedAt,
                   eventVars,
                   storeVars, watchVars, drainVars>>

\* the navigation fails: the context was cancelled, or DNS, connection, crash
NavErr ==
    /\ Running /\ mainpc = "Navigating"
    /\ runErr' = IF session = "Cancelled" THEN "cancelled" ELSE "neterr"
    /\ mainpc' = "RunFailed"
    /\ UNCHANGED <<proc, session, db, sleepAction, navigations, runReturnedAt,
                   eventVars, storeVars,
                   watchVars, drainVars>>

\* chromedp.Sleep(waitTime) what the call does: it builds the action and
\* returns it; only chromedp.Run would run it
Sleep(action) == IF action = "none" THEN "built" ELSE action

\* Run: the statement chromedp.Sleep(waitTime), then return nil
RunSleep ==
    /\ Running /\ mainpc = "Sleep"
    /\ sleepAction' = Sleep(sleepAction)
    /\ runErr' = "nil"
    /\ runReturnedAt' = Len(delivered)
    /\ mainpc' = "Watch"
    /\ UNCHANGED <<proc, session, db, navigations, eventVars, storeVars, watchVars,
                   drainVars>>

\* main with the error of Run only logged: it goes on to WatchEventFinishers
MainRunFailedLogOnly ==
    /\ Running /\ mainpc = "RunFailed"
    /\ mainpc' = "Watch"
    /\ UNCHANGED <<proc, session, db, runErr, sleepAction, navigations, runReturnedAt,
                   eventVars, storeVars, watchVars, drainVars>>

\* main: Run returned an error: log it and panic(err)
MainRunFailed ==
    /\ Running /\ mainpc = "RunFailed"
    /\ DeferredCancel
    /\ proc' = "panic"
    /\ mainpc' = "Panicked"
    /\ UNCHANGED <<db, runErr, sleepAction, navigations, runReturnedAt,
                   eventVars, storeVars, watchVars,
                   drainVars>>

\* WatchEventFinishers: start the goroutine of the watch loop and return
MainWatch ==
    /\ Running /\ mainpc = "Watch"
    /\ watchpc' = "recv"
    /\ mainpc' = "RangeRequests"
    /\ UNCHANGED <<proc, session, db, runErr, sleepAction, navigations, runReturnedAt,
                   eventVars,
                   storeVars, watchEvent, watchResp, watchMap, mu, fetches, drainVars>>

\* ------------------------------------------------------------- Event Listener
\* the browser has been started by the first chromedp.Run
BrowserStarted == mainpc \notin {"New", "InitDB", "Listen", "Run"}

\* where the goroutine the listener spawns for an event starts
StartPc(e) ==
    CASE e.kind = "request"  -> "append_read"
      [] e.kind = "response" -> "nilcheck"
      [] e.kind = "finished" -> "send"

\* the listener callback of ListenToEvents is called with event e, one of at
\* most max events of the run: it spawns the goroutine of the matching case
\* and returns
ListenerCalled(max, e) ==
    /\ Running /\ session = "Active" /\ BrowserStarted
    /\ Len(delivered) < max
    /\ delivered' = Append(delivered, e)
    /\ task' = Append(task, IdleTask(StartPc(e)))
    /\ UNCHANGED <<proc, session, mainVars, storeVars, watchVars, drainVars>>

Deliver == \E e \in Events : ListenerCalled(MaxEvents, e)

DeliverWide == \E e \in Events : ListenerCalled(MaxWideEvents, e)

\* Request{RequestID: ev.RequestID, Type: "request", URL: ev.Request.URL, Content: ev}
\* for the i-th delivered event
NewRequest(i) ==
    [RequestID |-> delivered[i].id, Type |-> "request", URL |-> delivered[i].url,
     Content |-> [seq |-> i, post |-> delivered[i].post], Body |-> <<>>]

\* Response{RequestID: ev.RequestID, Type: "response", URL: ev.Response.URL, Content: ev}
NewResponse(i) ==
    [RequestID |-> delivered[i].id, Type |-> "response", URL |-> delivered[i].url,
     Content |-> [seq |-> i, post |-> delivered[i].post], Body |-> <<>>]

\* ---------------------------------------------------------------- Event Store
\* Requests.Add: append(*rqs, request) on the slice value it read
RequestsAdd(rqs, request) == Append(rqs, request)

\* Responses.Add: r.ResponseMap[response.RequestID] = response
ResponsesAdd(m, response) == MapPut(m, response.RequestID, response)

\* the request goroutine reads *rqs ...
ReqRead(i) ==
    /\ Running /\ i \in DOMAIN task /\ task[i].pc = "append_read"
    /\ task' = [task EXCEPT ![i] = [pc |-> "append_write", old |-> requests, m |-> 0]]
    /\ UNCHANGED <<proc, session, mainVars, delivered, storeVars, watchVars, drainVars>>

\* ... and stores the appended slice back; no lock orders it with the other
\* request goroutines
ReqWrite(i) ==
    /\ Running /\ i \in DOMAIN task /\ task[i].pc = "append_write"
    /\ requests' = RequestsAdd(task[i].old, NewRequest(i))
    /\ task' = [task EXCEPT ![i] = IdleTask("done")]
    /\ UNCHANGED <<proc, session, mainVars, delivered, heap, ResponseMap, watchVars,
                   drainVars>>

\* the response goroutine, Responses.Add, which takes no lock:
\* if r.ResponseMap == nil.  On a map that is there the assignment starts, on
\* the map object r.ResponseMap refers to (once set, the reference is never
\* nil again, so the second read of it sees a map too)
RespNilCheck(i) ==
    /\ Running /\ i \in DOMAIN task /\ task[i].pc = "nilcheck"
    /\ task' = [task EXCEPT ![i] =
                  IF ResponseMap = 0 THEN IdleTask("make")
                  ELSE [pc |-> "assigning", old |-> <<>>, m |-> ResponseMap]]
    /\ UNCHANGED <<proc, session, mainVars, delivered, storeVars, watchVars, drainVars>>

\* r.ResponseMap = make(map[network.RequestID]Response)
RespMake(i) ==
    /\ Running /\ i \in DOMAIN task /\ task[i].pc = "make"
    /\ heap' = Append(heap, EmptyMap)
    /\ ResponseMap' = Len(heap) + 1
    /\ task' = [task EXCEPT ![i].pc = "assign"]
    /\ UNCHANGED <<proc, session, mainVars, delivered, requests, watchVars, drainVars>>

\* after its make, the assignment starts on the map object r.ResponseMap
\* refers to now (another goroutine's make may have replaced it)
RespAssignBegin(i) ==
    /\ Running /\ i \in DOMAIN task /\ task[i].pc = "assign"
    /\ task' = [task EXCEPT ![i] = [pc |-> "assigning", old |-> <<>>, m |-> ResponseMap]]
    /\ UNCHANGED <<proc, session, mainVars, delivered, storeVars, watchVars, drainVars>>

\* the map assignment completes
RespAssignEnd(i) ==
    /\ Running /\ i \in DOMAIN task /\ task[i].pc = "assigning"
    /\ heap' = [heap EXCEPT ![task[i].m] = ResponsesAdd(@, NewResponse(i))]
    /\ task' = [task EXCEPT ![i] = IdleTask("done")]
    /\ UNCHANGED <<proc, session, mainVars, delivered, requests, ResponseMap, watchVars,
                   drainVars>>

\* ---------------------------------------------------------------- Body Fetcher
\* GetResponseBody with only a prefix of the retrieved bytes kept
SetFetchedBodyTruncated(r) == [r EXCEPT !.Body = SubSeq(BrowserBody(r.RequestID), 1, 1)]

\* GetResponseBody: r.Body = body, for the body retrieved for r.RequestID
SetFetchedBody(r) == [r EXCEPT !.Body = BrowserBody(r.RequestID)]

\* a body retrieval that does not look at the context it is run on
FetchResultsIgnoringCancel(sess, id) == IF BodyAvailable(id) THEN {TRUE, FALSE} ELSE {FALSE}

\* GetResponseBody: the ways chromedp.Run(b.ctx, network.GetResponseBody(id))
\* can end on a context in state sess: TRUE is success.  It fails on a
\* cancelled context and for an identifier the browser has no body for, and
\* it may fail otherwise
FetchResults(sess, id) ==
    IF sess = "Active" /\ BodyAvailable(id) THEN {TRUE, FALSE} ELSE {FALSE}

\* a watch loop that calls GetResponseBody again after a failure
RetryFetchPc == "lookup"

\* where the watch loop goes when GetResponseBody returned an error: the error
\* is dropped and the loop receives the next notification
FailedFetchPc == "recv"

\* a send on a channel with room: goroutine i is done and nobody has received
SendWithoutReceiver(i) ==
    /\ Running
    /\ i \in DOMAIN task /\ task[i].pc = "send"
    /\ task' = [task EXCEPT ![i] = IdleTask("done")]
    /\ UNCHANGED <<proc, session, mainVars, delivered, storeVars, watchVars, drainVars>>

\* the channel of NewFinisherChannel is unbuffered: the send of the
\* load-finished goroutine i and the receive of the watch loop are one step.
\* The loop then takes responses.mu (only this goroutine ever takes it) and
\* the lookup responses.ResponseMap[event.RequestID] starts
WatchRecv(i) ==
    /\ Running /\ watchpc = "recv" /\ mu = "free"
    /\ i \in DOMAIN task /\ task[i].pc = "send"
    /\ watchEvent' = delivered[i].id
    /\ mu' = "watch"
    /\ watchMap' = ResponseMap
    /\ watchpc' = "lookup"
    /\ task' = [task EXCEPT ![i] = IdleTask("done")]
    /\ UNCHANGED <<proc, session, mainVars, delivered, storeVars, watchResp, fetches,
                   drainVars>>

\* resp := the entry, or the zero Response; responses.mu.Unlock().  Then
\* GetResponseBody, the chromedp.Run of network.GetResponseBody(r.RequestID):
\* it fails on a cancelled context and for an identifier the browser has no
\* body for, and it may fail otherwise; on failure GetResponseBody returns.
\* (The retrieval reads nothing another goroutine writes but the context, which
\* is only ever cancelled, so it is taken in the same step as the lookup's end.)
WatchFetch ==
    /\ Running /\ watchpc = "lookup"
    /\ LET resp == IF watchMap = 0 THEN ZeroResponse
                   ELSE MapGet(heap[watchMap], watchEvent)
       IN  \E ok \in FetchResults(session, resp.RequestID) :
             /\ fetches' = Append(fetches, <<watchEvent, resp.RequestID, ok, session>>)
             /\ IF ok
                  THEN /\ watchResp' = SetFetchedBody(resp)
                       /\ watchpc' = "wb"
                       /\ watchEvent' = watchEvent
                  ELSE /\ watchResp' = ZeroResponse
                       /\ watchpc' = FailedFetchPc
                       /\ watchEvent' = IF FailedFetchPc = "recv" THEN NoID ELSE watchEvent
    /\ watchMap' = 0
    /\ mu' = "free"
    /\ UNCHANGED <<proc, session, mainVars, eventVars, storeVars, drainVars>>

\* GetResponseBody: responses.mu.Lock(); the assignment
\* responses.ResponseMap[r.RequestID] = *r starts; on the nil map it panics
WatchWriteBegin ==
    /\ Running /\ watchpc = "wb" /\ mu = "free"
    /\ mu' = "watch"
    /\ IF ResponseMap = 0
         THEN /\ proc' = "panic"
              /\ watchpc' = "nilmap"
              /\ watchMap' = 0
         ELSE /\ proc' = proc
              /\ watchpc' = "writing"
              /\ watchMap' = ResponseMap
    /\ UNCHANGED <<session, mainVars, eventVars, storeVars, watchEvent, watchResp, fetches,
                   drainVars>>

\* GetResponseBody: what the write-back stores: the copy *r read by the lookup
\* before the fetch, with the fetched body
WriteBack(m, r) == MapPut(m, r.RequestID, r)

\* the assignment completes; the deferred responses.mu.Unlock()
WatchWriteEnd ==
    /\ Running /\ watchpc = "writing"
    /\ heap' = [heap EXCEPT ![watchMap] = WriteBack(@, watchResp)]
    /\ mu' = "free"
    /\ watchpc' = "recv"
    /\ watchResp' = ZeroResponse
    /\ watchEvent' = NoID
    /\ watchMap' = 0
    /\ UNCHANGED <<proc, session, mainVars, eventVars, requests, ResponseMap, fetches,
                   drainVars>>

\* ------------------------------------------------------------ the final drain
\* the concatenation of the post-data entries, in order
RECURSIVE Concat(_)
Concat(entries) == IF entries = <<>> THEN <<>> ELSE Head(entries) \o Concat(Tail(entries))

\* Request.SetBody with postData = entry.Bytes in the loop: the last entry only
SetBodyLastEntryOnly(r) ==
    IF r.Type # "request" THEN r
    ELSE [r EXCEPT !.Body = IF r.Content.post = <<>> THEN <<>>
                            ELSE r.Content.post[Len(r.Content.post)]]

\* Request.SetBody: for a "request", Body = the concatenated post-data entries
\* of its event
SetBody(r) == IF r.Type # "request" THEN r ELSE [r EXCEPT !.Body = Concat(r.Content.post)]

\* InsertIntoDB(logger, db, testID, event) ending with result out
InsertIntoDB(event, out) ==
    /\ inserts' = Append(inserts, [event |-> event, result |-> out])
    /\ rows' = IF out = "ok" THEN Append(rows, Row(event)) ELSE rows

\* a drain that leaves its loops at the first error InsertIntoDB returns
AfterInsertStopAtError(out, nextpc) ==
    IF out = "nil_deref"
      THEN /\ proc' = "panic"
           /\ DeferredCancel
           /\ mainpc' = "Panicked"
      ELSE /\ proc' = proc
           /\ session' = session
           /\ mainpc' = IF out = "ok" THEN nextpc ELSE "Return"

\* main goes on after an insert, or dies in db.Exec on the nil *sql.DB
AfterInsert(out, nextpc) ==
    IF out = "nil_deref"
      THEN /\ proc' = "panic"
           /\ DeferredCancel
           /\ mainpc' = "Panicked"
      ELSE /\ proc' = proc
           /\ session' = session
           /\ mainpc' = nextpc

\* for _, r := range requests: the slice value is read once, here
DrainReqStart ==
    /\ Running /\ mainpc = "RangeRequests"
    /\ drainReqs' = requests
    /\ drainIdx' = 1
    /\ mainpc' = "InsertRequest"
    /\ UNCHANGED <<proc, session, db, runErr, sleepAction, navigations, runReturnedAt,
                   eventVars,
                   storeVars, watchVars, drainMap, drainStart, drainSeen, cur, inserts,
                   rows>>

\* one iteration: r.SetBody, InsertIntoDB, the error is logged
DrainReqStep ==
    /\ Running /\ mainpc = "InsertRequest" /\ drainIdx <= Len(drainReqs)
    /\ LET r == SetBody(drainReqs[drainIdx])
       IN  \E out \in InsertOutcomes(db, r) :
             /\ InsertIntoDB(r, out)
             /\ AfterInsert(out, "InsertRequest")
    /\ drainIdx' = drainIdx + 1
    /\ UNCHANGED <<db, runErr, sleepAction, navigations, runReturnedAt,
                   eventVars, storeVars, watchVars,
                   drainReqs, drainMap, drainStart, drainSeen, cur>>

\* for _, r := range responses.ResponseMap: the map reference is read once,
\* here, without the lock; the nil map has no iterations
DrainRespStart ==
    /\ Running /\ mainpc = "InsertRequest" /\ drainIdx > Len(drainReqs)
    /\ drainMap' = ResponseMap
    /\ drainStart' = IF ResponseMap = 0 THEN {} ELSE Keys(heap[ResponseMap])
    /\ drainSeen' = {}
    /\ mainpc' = IF ResponseMap = 0 THEN "Return" ELSE "IterResponses"
    /\ UNCHANGED <<proc, session, db, runErr, sleepAction, navigations, runReturnedAt,
                   eventVars,
                   storeVars, watchVars, drainReqs, drainIdx, cur, inserts, rows>>

\* the loop produces the next entry: an entry not produced yet, as the map
\* holds it now
DrainRespNext ==
    /\ Running /\ mainpc = "IterResponses"
    /\ \E k \in Keys(heap[drainMap]) \ drainSeen :
         /\ cur' = heap[drainMap][k]
         /\ drainSeen' = drainSeen \cup {k}
    /\ mainpc' = "InsertResponse"
    /\ UNCHANGED <<proc, session, db, runErr, sleepAction, navigations, runReturnedAt,
                   eventVars, storeVars, watchVars, drainReqs, drainIdx, drainMap,
                   drainStart, inserts, rows>>

\* one iteration of the response loop: InsertIntoDB, the error is logged
DrainRespInsert ==
    /\ Running /\ mainpc = "InsertResponse"
    /\ \E out \in InsertOutcomes(db, cur) :
         /\ InsertIntoDB(cur, out)
         /\ AfterInsert(out, "IterResponses")
    /\ cur' = ZeroResponse
    /\ UNCHANGED <<db, runErr, sleepAction, navigations, runReturnedAt, eventVars,
                   storeVars, watchVars, drainReqs, drainIdx, drainMap, drainStart,
                   drainSeen>>

\* the loop ends: every entry the map held when the loop began was produced
\* (an entry added during the iteration may be produced or skipped)
DrainRespEnd ==
    /\ Running /\ mainpc = "IterResponses"
    /\ drainStart \subseteq drainSeen
    /\ mainpc' = "Return"
    /\ UNCHANGED <<proc, session, db, runErr, sleepAction, navigations, runReturnedAt,
                   eventVars, storeVars, watchVars, drainVars>>

\* main returns: the deferred client.Cancel(), and the process exits with
\* whatever goroutines are still running
MainReturn ==
    /\ Running /\ mainpc = "Return"
    /\ DeferredCancel
    /\ proc' = "exited"
    /\ mainpc' = "Done"
    /\ UNCHANGED <<db, runErr, sleepAction, navigations, runReturnedAt, eventVars,
                   storeVars, watchVars, drainVars>>

\* ------------------------------------------------------ accesses to the map
\* the goroutines inside an access to a map object now: who, read or write,
\* the object, and whether the goroutine holds responses.mu
MapAccesses ==
    {[who |-> <<"task", i>>, mode |-> "w", m |-> task[i].m, locked |-> FALSE] :
        i \in {j \in DOMAIN task : task[j].pc = "assigning"}}
    \cup (IF watchpc = "lookup" /\ watchMap # 0
            THEN {[who |-> <<"watch", 0>>, mode |-> "r", m |-> watchMap,
                   locked |-> mu = "watch"]}
            ELSE {})
    \cup (IF watchpc = "writing"
            THEN {[who |-> <<"watch", 0>>, mode |-> "w", m |-> watchMap,
                   locked |-> mu = "watch"]}
            ELSE {})
    \cup (IF mainpc = "IterResponses"
            THEN {[who |-> <<"main", 0>>, mode |-> "r", m |-> drainMap, locked |-> FALSE]}
            ELSE {})

\* two goroutines are inside the same map object and one of them writes
Race ==
    \E a, b \in MapAccesses : a.who # b.who /\ a.m = b.m /\ "w" \in {a.mode, b.mode}

\* the Go runtime may detect the concurrent map access and kill the process
\* ("fatal error: concurrent map writes", "... map read and map write")
RuntimeFatal ==
    /\ Running /\ Race
    /\ proc' = "fatal"
    /\ UNCHANGED <<session, mainVars, eventVars, storeVars, watchVars, drainVars>>

\* ---------------------------------------------------------- specification
\* the steps of main
MainStep ==
    \/ MainNew
    \/ MainInitDB
    \/ MainListen
    \/ RunNavigate
    \/ NavOK
    \/ NavErr
    \/ RunSleep
    \/ MainRunFailed
    \/ MainWatch
    \/ DrainReqStart
    \/ DrainReqStep
    \/ DrainRespStart
    \/ DrainRespNext
    \/ DrainRespInsert
    \/ DrainRespEnd
    \/ MainReturn

\* the steps of the goroutines of the events and of the watch loop
GoroutineStep ==
    \/ \E i \in DOMAIN task : ReqRead(i)
    \/ \E i \in DOMAIN task : ReqWrite(i)
    \/ \E i \in DOMAIN task : RespNilCheck(i)
    \/ \E i \in DOMAIN task : RespMake(i)
    \/ \E i \in DOMAIN task : RespAssignBegin(i)
    \/ \E i \in DOMAIN task : RespAssignEnd(i)
    \/ \E i \in DOMAIN task : WatchRecv(i)
    \/ WatchFetch
    \/ WatchWriteBegin
    \/ WatchWriteEnd

Next ==
    \/ MainStep
    \/ GoroutineStep
    \/ Timeout
    \/ RuntimeFatal
    \/ Deliver

\* the steps of a run that ends before the 60 s timeout of the context
WideNext ==
    \/ MainStep
    \/ GoroutineStep
    \/ RuntimeFatal
    \/ DeliverWide

\* a run of at most MaxEvents events
Spec == Init /\ [][Next]_vars

\* a run of at most MaxWideEvents events in which the timeout does not expire
WideSpec == Init /\ [][WideNext]_vars

\* ------------------------------------- the Persistence Sink on its own
\* one call of InsertIntoDB with an event whose URL is any string over
\* UrlChars of length at most MaxUrlLen, or one of the URLs with a scheme, a
\* host and a port, on an open or a nil connection
SinkEvents ==
    [RequestID : RequestIDs, Type : {"request", "response"},
     URL : StringsUpTo(UrlChars, MaxUrlLen) \cup {GoodUrl, Ip6Url},
     Content : {NilContent}, Body : {<<>>}]

SinkInit ==
    /\ proc = "running"
    /\ session = "Active"
    /\ db \in {"ok", "nil"}
    /\ mainpc = "Sink"
    /\ cur \in SinkEvents
    /\ runErr = "nil"
    /\ sleepAction = "built"
    /\ navigations = 1
    /\ runReturnedAt = 0
    /\ delivered = <<>>
    /\ task = <<>>
    /\ requests = <<>>
    /\ heap = <<>>
    /\ ResponseMap = 0
    /\ mu = "free"
    /\ watchpc = "off"
    /\ watchEvent = NoID
    /\ watchResp = ZeroResponse
    /\ watchMap = 0
    /\ fetches = <<>>
    /\ drainReqs = <<>>
    /\ drainIdx = 0
    /\ drainMap = 0
    /\ drainStart = {}
    /\ drainSeen = {}
    /\ inserts = <<>>
    /\ rows = <<>>

SinkInsert ==
    /\ Running /\ mainpc = "Sink"
    /\ \E out \in InsertOutcomes(db, cur) :
         /\ InsertIntoDB(cur, out)
         /\ AfterInsert(out, "SinkDone")
    /\ UNCHANGED <<db, runErr, sleepAction, navigations, runReturnedAt, eventVars,
                   storeVars, watchVars, drainReqs, drainIdx, drainMap, drainStart,
                   drainSeen, cur>>

SinkNext == SinkInsert

SinkSpec == SinkInit /\ [][SinkNext]_vars

\* ------------------------------------------------- Request.SetBody on its own
\* the Bytes of a post-data entry
EntryBytes == {<<>>, <<"a">>, <<"a", "b">>, <<"c", "d">>}

\* the Requests SetBody is called on: of type "request" or not, with at most
\* MaxEntries post-data entries, with or without a Body already
BodyInputs ==
    [RequestID : RequestIDs, Type : {"request", "response"}, URL : {GoodUrl},
     Content : [seq : {1}, post : StringsUpTo(EntryBytes, MaxEntries)],
     Body : {<<>>, <<"x">>}]

BodyInit ==
    /\ proc = "running"
    /\ session = "Active"
    /\ db = "ok"
    /\ mainpc = "SetBody"
    /\ \E r \in BodyInputs : drainReqs = <<r>>
    /\ drainIdx = 1
    /\ cur = ZeroResponse
    /\ runErr = "nil"
    /\ sleepAction = "built"
    /\ navigations = 1
    /\ runReturnedAt = 0
    /\ delivered = <<>>
    /\ task = <<>>
    /\ requests = <<>>
    /\ heap = <<>>
    /\ ResponseMap = 0
    /\ mu = "free"
    /\ watchpc = "off"
    /\ watchEvent = NoID
    /\ watchResp = ZeroResponse
    /\ watchMap = 0
    /\ fetches = <<>>
    /\ drainMap = 0
    /\ drainStart = {}
    /\ drainSeen = {}
    /\ inserts = <<>>
    /\ rows = <<>>

\* r.SetBody(ctx) on the loop variable r of main
BodySetBody ==
    /\ Running /\ mainpc = "SetBody"
    /\ cur' = SetBody(drainReqs[drainIdx])
    /\ mainpc' = "BodyDone"
    /\ UNCHANGED <<proc, session, db, runErr, sleepAction, navigations, runReturnedAt,
                   eventVars, storeVars, watchVars, drainReqs, drainIdx, drainMap,
                   drainStart, drainSeen, inserts, rows>>

BodyNext == BodySetBody

BodySpec == BodyInit /\ [][BodyNext]_vars

\* ======================================================================
\* Properties
\* ======================================================================

\* the goroutines of the request-initiation events have all run
RequestTasksDone ==
    \A i \in DOMAIN task : delivered[i].kind = "request" => task[i].pc = "done"

\* the goroutine of every delivered event has run and the watch loop is idle
AllTasksDone ==
    /\ \A i \in DOMAIN task : task[i].pc = "done"
    /\ watchpc \in {"off", "recv"}

\* the requests of the delivered request-initiation events, in delivery order
RECURSIVE RequestsUpTo(_)
RequestsUpTo(n) ==
    IF n = 0 THEN <<>>
    ELSE IF delivered[n].kind = "request"
      THEN Append(RequestsUpTo(n - 1), NewRequest(n))
    ELSE RequestsUpTo(n - 1)

\* C1: once the goroutines of all delivered request-initiation events have run,
\* the Requests sequence holds exactly one CapturedRequest per delivered event,
\* in the order of delivery.
C1_RequestsInArrivalOrder ==
    RequestTasksDone => requests = RequestsUpTo(Len(delivered))

\* C3: the accesses to the response map (the upsert of Responses.Add, the
\* lookup of the watch loop, the write-back of GetResponseBody, the iteration
\* of the final drain) exclude one another through responses.mu: no two
\* goroutines are ever inside the same map at once with one of them writing.
C3_NoConcurrentMapAccess == ~Race

\* C2: the write-back of GetResponseBody never replaces the record the map
\* holds for the requestID by a copy of an older record: what it stores is the
\* current record with the fetched body, so a response added while the fetch
\* was in flight is not lost.
C2_NoStaleWriteBack ==
    [][(watchpc = "writing" /\ watchpc' = "recv") =>
         LET k == watchResp.RequestID
         IN  heap[watchMap][k] # Absent =>
                heap'[watchMap][k] = [heap[watchMap][k] EXCEPT !.Body = watchResp.Body]]_vars

\* a body fetch has succeeded for request identifier k
FetchSucceeded(k) == \E j \in DOMAIN fetches : fetches[j][2] = k /\ fetches[j][3]

\* C4: a stored CapturedResponse has an empty body as long as no body fetch has
\* succeeded for its requestID; a stored body is exactly the bytes retrieved,
\* and once stored it is never reset or changed.
C4_BodyEmptyUntilFetchedThenKept ==
    /\ [](\A m \in DOMAIN heap : \A k \in AllIDs :
            heap[m][k] # Absent =>
               /\ (~FetchSucceeded(k) => heap[m][k].Body = <<>>)
               /\ (heap[m][k].Body # <<>> => heap[m][k].Body = BrowserBody(k)))
    /\ [][\A m \in DOMAIN heap : \A k \in AllIDs :
            heap[m][k].Body # <<>> => heap'[m][k].Body = heap[m][k].Body]_vars

\* the delivery index of the last response-received event for k, 0 if none
LastResponseEvent(k) ==
    LET S == {i \in DOMAIN delivered : delivered[i].kind = "response" /\ delivered[i].id = k}
    IN  IF S = {} THEN 0 ELSE CHOOSE i \in S : \A j \in S : j <= i

\* C5: once every goroutine has run, the response map holds for each requestID
\* that had a response-received event one entry, the one built from the most
\* recently delivered of them; adding the same response twice is adding it once.
C5_LastResponseRetained ==
    /\ \A m \in DOMAIN heap : \A i \in DOMAIN delivered :
          ResponsesAdd(ResponsesAdd(heap[m], NewResponse(i)), NewResponse(i))
             = ResponsesAdd(heap[m], NewResponse(i))
    /\ AllTasksDone =>
          \A k \in RequestIDs :
             LastResponseEvent(k) # 0 =>
                /\ ResponseMap # 0
                /\ heap[ResponseMap][k] # Absent
                /\ heap[ResponseMap][k].Content.seq = LastResponseEvent(k)

\* the body fetch for a notification of request identifier k has completed:
\* the retrieval was made and, if it succeeded, its write-back is over
FetchCompleted(k) ==
    \E j \in DOMAIN fetches :
        /\ fetches[j][1] = k
        /\ ~(j = Len(fetches) /\ watchpc \in {"wb", "writing"})

\* C6: no response is persisted while the body fetch for a finished-load
\* notification of its requestID that was pending when Run returned has not
\* completed.
C6_PendingFetchedBeforePersist ==
    \A n \in DOMAIN inserts :
        inserts[n].event.Type = "response" =>
           \A i \in 1..runReturnedAt :
              (delivered[i].kind = "finished" /\ delivered[i].id = inserts[n].event.RequestID)
                 => FetchCompleted(delivered[i].id)

\* C7: when main has returned, an insert was attempted for every
\* request-initiation and response-received event that had been delivered when
\* Run returned.
C7_EveryCapturedEventInserted ==
    proc = "exited" =>
       \A i \in 1..runReturnedAt :
          delivered[i].kind \in {"request", "response"} =>
             \E n \in DOMAIN inserts :
                /\ inserts[n].event.Content.seq = i
                /\ inserts[n].event.Type = delivered[i].kind

\* C8 (as stated): when the session times out during the navigation, no event
\* has been captured and main, having logged the error, does not crash but goes
\* on to the drain.
C8_TimeoutStillDrains ==
    (runErr = "cancelled" /\ navigations = 1) =>
        /\ delivered = <<>>
        /\ proc # "panic"
        /\ mainpc # "Panicked"

\* C8 (amended): when Run has returned the cancellation error, main does
\* nothing but log it and panic: the watch loop is never started, the drain
\* never begins, no insert is made, and the deferred Cancel has run when main
\* has panicked.
C8_TimeoutAbortsRun ==
    runErr = "cancelled" =>
        /\ mainpc \in {"RunFailed", "Panicked"}
        /\ watchpc = "off"
        /\ drainIdx = 0
        /\ inserts = <<>>
        /\ rows = <<>>
        /\ (mainpc = "Panicked" => proc = "panic" /\ session = "Cancelled")

\* C8 witness: the session timed out during the navigation, after a request
\* had been captured, and main has panicked
C8_Witness ==
    /\ runErr = "cancelled"
    /\ navigations = 1
    /\ mainpc = "Panicked"
    /\ requests # <<>>

\* C9: when Run has returned nil, exactly one navigation was performed and the
\* dwell of the given duration has taken place after it.
C9_RunDwellsAfterNavigation ==
    runErr = "nil" => navigations = 1 /\ sleepAction = "ran"

\* a URL without a scheme: no "scheme:" in front
NoScheme(u) == u # <<>> /\ u[1] # ":" /\ getScheme(u).scheme = <<>>

\* C10 (as stated): a call of InsertIntoDB with a malformed URL, a URL with no
\* scheme among them, returns the URL-parse error and executes no INSERT.
C10_NoSchemeUrlRejected ==
    \A k \in DOMAIN inserts :
        NoScheme(inserts[k].event.URL) => inserts[k].result = "parse_error" /\ rows = <<>>

\* C10 (amended): a call of InsertIntoDB with a URL that url.Parse rejects
\* returns the URL-parse error before db.Exec, whatever the connection, and no
\* row is written; a URL that only lacks its scheme is not rejected for that.
C10_RejectedUrlWritesNoRow ==
    mainpc \in {"SinkDone", "Panicked"} =>
        /\ Len(inserts) = 1
        /\ (Parse(cur.URL).err # "" =>
               inserts[1].result = "parse_error" /\ rows = <<>> /\ proc = "running")
        /\ (HasPrefix(cur.URL, <<":">>) => inserts[1].result = "parse_error")
        /\ (rows # <<>> => inserts[1].result = "ok" /\ Len(rows) = 1)

\* C10 witness: a call with a URL that has an empty scheme in front of its ":"
\* has returned the parse error
C10_Witness ==
    /\ mainpc = "SinkDone"
    /\ cur.URL = <<":", "/", "/", "a">>
    /\ inserts[1].result = "parse_error"
    /\ rows = <<>>

\* the host without its port: of an IP literal "[addr]:port" the address
\* between the brackets, of any other "host:port" what precedes the last ":"
BareHost(h) ==
    IF HasPrefix(h, <<"[">>) /\ LastIndex(h, "]") # 0
      THEN SubSeq(h, 2, LastIndex(h, "]") - 1)
    ELSE IF LastIndex(h, ":") # 0 THEN SubSeq(h, 1, LastIndex(h, ":") - 1)
    ELSE h

\* C11: for every event URL scheme://host[:port]/path the domain InsertIntoDB
\* writes is exactly the bare host: the port is stripped, scheme and path are
\* ignored.
C11_DomainIsBareHost ==
    (/\ mainpc = "SinkDone"
     /\ rows # <<>>
     /\ getScheme(cur.URL).scheme # <<>>
     /\ Parse(cur.URL).Host # <<>>)
        => rows[1].domain = BareHost(Parse(cur.URL).Host)

\* the first k entries joined, the way the loop of SetBody builds postData
RECURSIVE JoinUpTo(_, _)
JoinUpTo(entries, k) == IF k = 0 THEN <<>> ELSE JoinUpTo(entries, k - 1) \o entries[k]

\* C12: for a Request of type "request" SetBody sets Body to the post-data
\* entries joined in order (["ab", "cd"] gives "abcd", no entries give the
\* empty body) and changes nothing else; a Request of any other type is left
\* as it was.
C12_SetBodyJoinsPostData ==
    mainpc = "BodyDone" =>
        LET r     == drainReqs[1]
            post  == r.Content.post
        IN  /\ r.Type = "request" => cur = [r EXCEPT !.Body = JoinUpTo(post, Len(post))]
            /\ (r.Type = "request" /\ post = << <<"a", "b">>, <<"c", "d">> >>)
                   => cur.Body = <<"a", "b", "c", "d">>
            /\ (r.Type = "request" /\ post = <<>>) => cur.Body = <<>>
            /\ r.Type # "request" => cur = r

\* C12 witness: SetBody has replaced the Body of a request with entries
\* "ab", "cd" by "abcd"
C12_Witness ==
    /\ mainpc = "BodyDone"
    /\ drainReqs[1].Type = "request"
    /\ drainReqs[1].Body = <<"x">>
    /\ drainReqs[1].Content.post = << <<"a", "b">>, <<"c", "d">> >>
    /\ cur.Body = <<"a", "b", "c", "d">>

\* the calls of InsertIntoDB made for events of type t, in order
InsertsOfType(t) == SelectSeq(inserts, LAMBDA x : x.event.Type = t)

\* C13: an insert that returned an error (URL-parse error, write failure) does
\* not abort the drain: while main is in the request loop one insert has been
\* attempted per element passed, and when the drain is over exactly one insert
\* has been attempted for every element of the Requests sequence the loop
\* ranged over and for every entry the response map held.
C13_FailedInsertDoesNotAbortDrain ==
    /\ (inserts # <<>> /\ inserts[Len(inserts)].result \in {"parse_error", "exec_error"})
          => mainpc # "Panicked"
    /\ mainpc = "InsertRequest" => Len(InsertsOfType("request")) = drainIdx - 1
    /\ mainpc \in {"Return", "Done"} =>
          /\ Len(InsertsOfType("request")) = Len(drainReqs)
          /\ \A i \in DOMAIN drainReqs :
                InsertsOfType("request")[i].event = SetBody(drainReqs[i])
          /\ \A k \in drainStart :
                Cardinality({n \in DOMAIN inserts :
                               /\ inserts[n].event.Type = "response"
                               /\ inserts[n].event.RequestID = k}) = 1

\* C13 witness: the drain is over, its first insert returned the URL-parse
\* error, its second one failed in db.Exec
C13_Witness ==
    /\ mainpc = "Done"
    /\ Len(inserts) = 2
    /\ inserts[1].result = "parse_error"
    /\ inserts[2].result = "exec_error"

\* C14: every body retrieval the watch loop issues is issued for the requestID
\* its notification carries, also when the lookup found no record and produced
\* the empty placeholder; on success the body is stored under that requestID.
C14_FetchUsesNotificationID ==
    /\ \A j \in DOMAIN fetches : fetches[j][2] = fetches[j][1]
    /\ watchpc \in {"wb", "writing"} => watchResp.RequestID = watchEvent

\* C20: main never calls db.Exec on the nil connection a failed database.Init
\* left: after the failure was logged the run goes on to its end without a
\* crash.
C20_NoInsertOnNilConnection ==
    /\ \A n \in DOMAIN inserts : inserts[n].result # "nil_deref"
    /\ db = "nil" => mainpc # "Panicked" \/ runErr \in {"cancelled", "neterr"}

\* the load-finished goroutines whose send on the channel has completed
SendsCompleted == {i \in DOMAIN task : delivered[i].kind = "finished" /\ task[i].pc = "done"}

\* the body retrieval issued by this step, if the step issued one
FetchIssued == Len(fetches') = Len(fetches) + 1

\* C15: at most one body retrieval is issued per consumed notification, and a
\* retrieval that fails leaves the response map as it was and takes the watch
\* loop back to receiving the next notification.
C15_FailedFetchDropped ==
    /\ [](Len(fetches) <= Cardinality(SendsCompleted))
    /\ [][(FetchIssued /\ ~fetches'[Len(fetches')][3]) =>
             /\ heap' = heap
             /\ ResponseMap' = ResponseMap
             /\ watchpc' = "recv"
             /\ mu' = "free"]_vars

\* C15 witness: the retrieval for the first notification failed and the loop
\* has issued the retrieval for the second one
C15_Witness ==
    /\ Len(fetches) = 2
    /\ ~fetches[1][3]
    /\ Cardinality(SendsCompleted) = 2

\* C16 (as stated): a goroutine at its send on the notification channel is
\* never kept waiting: it can complete the send whether or not the watch loop
\* has been started or is busy.
C16_SendNeverWaits ==
    Running => \A i \in DOMAIN task : task[i].pc = "send" => ENABLED WatchRecv(i)

\* C16 (amended): the channel is unbuffered: a send completes only in the step
\* in which the watch loop receives that notification, so no send has
\* completed while the loop is not started, and a sender waits while the loop
\* is busy.
C16_SendCompletesAtReceive ==
    /\ [](watchpc = "off" => SendsCompleted = {})
    /\ [][\A i \in DOMAIN task :
            (task[i].pc = "send" /\ task'[i].pc = "done") =>
               /\ watchpc = "recv" /\ watchpc' = "lookup"
               /\ watchEvent' = delivered[i].id]_vars

\* C16 witness: one notification has been received and is being handled, the
\* goroutine of another load-finished event waits at its send
C16_Witness ==
    /\ watchpc = "lookup"
    /\ SendsCompleted # {}
    /\ \E i \in DOMAIN task : task[i].pc = "send"

\* C17: the session goes Idle -> Active at creation and Active -> Cancelled at
\* Cancel or at the timeout, Cancelled is terminal, and a navigation or a body
\* retrieval issued on the cancelled session fails and leaves the response map
\* unchanged.
C17_SessionLifecycle ==
    [][/\ session = "Idle" => session' \in {"Idle", "Active"}
       /\ (session = "Idle" /\ session' = "Active") => (mainpc = "New" /\ mainpc' # "New")
       /\ session = "Active" => session' \in {"Active", "Cancelled"}
       /\ session = "Cancelled" =>
             /\ session' = "Cancelled"
             /\ FetchIssued =>
                   /\ ~fetches'[Len(fetches')][3]
                   /\ heap' = heap /\ ResponseMap' = ResponseMap
                   /\ watchpc' = "recv"
             /\ (mainpc \in {"Run", "Navigating"} /\ mainpc' # mainpc) =>
                   /\ mainpc' = "RunFailed" /\ runErr' = "cancelled"
                   /\ navigations' = navigations
                   /\ heap' = heap /\ ResponseMap' = ResponseMap]_vars

\* C17 witness: a body retrieval was issued on the cancelled session and failed
C17_Witness ==
    \E j \in DOMAIN fetches : fetches[j][4] = "Cancelled" /\ ~fetches[j][3]

\* C18: the body of every entry of the response map is empty or the complete
\* bytes the browser returned for the requestID the entry is stored under.
C18_StoredBodyEmptyOrComplete ==
    \A m \in DOMAIN heap : \A k \in AllIDs :
        heap[m][k] # Absent =>
           /\ heap[m][k].RequestID = k
           /\ heap[m][k].Body \in {<<>>, BrowserBody(k)}

\* C18 witness: an entry of the response map holds the body fetched for it
C18_Witness ==
    /\ ResponseMap # 0
    /\ \E k \in RequestIDs : /\ heap[ResponseMap][k] # Absent
                              /\ heap[ResponseMap][k].Body = BrowserBody(k)

\* C19: the write-back of GetResponseBody never runs on the nil map: whenever
\* a body fetch has succeeded, Responses.Add has made the map, so the watch
\* loop never dies in the assignment.
C19_WriteBackOnCreatedMap ==
    /\ watchpc \in {"wb", "writing"} => ResponseMap # 0
    /\ watchpc # "nilmap"
    /\ proc = "panic" => mainpc = "Panicked"

\* C19 witness: a fetch has succeeded and its write-back is running, on a
\* map that is there
C19_Witness ==
    /\ watchpc = "writing"
    /\ watchMap # 0
    /\ fetches[Len(fetches)][3]

====
